---- MODULE Spec2Model ----
(***************************************************************************)
(* Model of the replay_task experiment scripts:                            *)
(*   - utils.create_random_mapping   (the scrambling-rule generator)       *)
(*   - utils.get_scrambling_rule     (scrambling_rules.json)               *)
(*   - utils.get_object_mapping      (object_mappings.json)                *)
(*   - training.Training.run         (adaptive quiz loop)                  *)
(*   - training2.Training.run        (adaptive quiz loop with retries)     *)
(*   - trigger.MetaPort              (the trigger port)                    *)
(*   - applied_learning.AppliedLearning and                                *)
(*     functional_localizer.FunctionalLocalizer (timed trials)             *)
(***************************************************************************)
EXTENDS Integers, Sequences, FiniteSets, TLC

VARIABLES
    \* ---- create_random_mapping (utils.py 133-180)
    cm_pc,              \* "loop" while the for loop runs, "returned", "IndexError"
    num,                \* loop variable of `for num in range(8)`
    available_codes,    \* list of codes not yet placed
    mapping,            \* dict code -> slot
    number_subsets,     \* dict slot -> "seq1" / "seq2"
    \* ---- get_scrambling_rule (utils.py 108-131)
    rules_file,         \* scrambling_rules.json
    gsr_ret,            \* outcome of the last get_scrambling_rule call
    gsr_first,          \* history: subject_str -> the first rule returned for it
    \* ---- get_object_mapping (utils.py 183-221)
    mappings_file,      \* object_mappings.json
    gom_ret,            \* outcome of the last get_object_mapping call
    gom_calls,          \* number of get_object_mapping calls made so far
    \* ---- Training.run of training.py (128-428) and training2.py (167-746)
    script,             \* "training" or "training2": which script runs
    pc,                 \* position in run()
    learning_levels,    \* dict state -> learning level
    current_lowest_level,
    true_state,         \* training.py: the state trained in this round
    true_state_2,       \* training.py: the order-quiz partner, or "None"
    perfect_rounds,     \* training.py, history: rounds completed while every quiz so
                        \* far was answered correctly; -1 after an incorrect answer
    train_state_1,      \* training2.py: the pair trained by the inner loop
    train_state_2,
    quiz_state_1,       \* training2.py: the arguments of the running do_quizzes call
    quiz_state_2,
    call_site,          \* training2.py: which call of do_quizzes is running
    quiz_result,        \* result of the sequence quiz
    quiz_result_2,      \* result of the order quiz
    retry_count,        \* training2.py: retry_count of the running retry wrapper
    open_ix,            \* training2.py: iterations done of `for _ in range(40)`
    asked,              \* history: quiz types asked since the round (do_quizzes call) began
    n_detours,          \* training2.py: quizzes failed after all retries, plus random
                        \* draws that did not take the first candidate, so far
    rows_written,       \* training2.py, history: rows written to the behaviour file
                        \* since the running do_quizzes call began
    last_result,        \* training2.py: `result` of the running retry wrapper
    shown,              \* training2.py, history: screens the retry wrapper has shown
                        \* since its last attempt
    behavior_file_open, \* whether self.behavior_file is open
    \* ---- applied_learning.py and functional_localizer.py
    task,               \* "applied_learning" or "functional_localizer": which task runs
    task_pc,            \* position in __post_init__ / run()
    task_subject,       \* subject_id of the task object
    is_connected,       \* MetaPort.is_connected
    run,                \* applied_learning.py: loop variable of `for run in range(N_RUNS)`
    screens_shown,      \* applied_learning.py: scrambled_sequences_screen calls done in this run
    probe_ix,           \* applied_learning.py: loop variable of `for probe_ix in range(40)`
    trial_num,          \* functional_localizer.py: trial_num of the last trial begun
    trials_begun,       \* history: quiz_screen calls / trial iterations begun
    behavior_rows,      \* rows written to the behaviour file after the header
    \* ---- a session of training2.py / structure_learning.py / applied_learning.py
    session             \* the task object's subject_id, phase, scrambling_rule and
                        \* object_mapping, and the reshuffles done in this run

cm_vars == <<cm_pc, num, available_codes, mapping, number_subsets>>
gsr_vars == <<rules_file, gsr_ret, gsr_first>>
gom_vars == <<mappings_file, gom_ret, gom_calls>>
tr_vars == <<script, pc, learning_levels, current_lowest_level, true_state,
             true_state_2, perfect_rounds, train_state_1, train_state_2, quiz_state_1,
             quiz_state_2, call_site, quiz_result, quiz_result_2, retry_count,
             open_ix, asked, n_detours, rows_written, last_result, shown,
                   behavior_file_open>>
task_vars == <<task, task_pc, task_subject, is_connected, run, screens_shown,
               probe_ix, trial_num, trials_begun, behavior_rows>>
ses_vars == <<session>>
vars == <<cm_vars, gsr_vars, gom_vars, tr_vars, task_vars, ses_vars>>

\* what each group of operations leaves alone
cm_frame == <<gsr_vars, gom_vars, tr_vars, task_vars, ses_vars>>
gsr_frame == <<cm_vars, gom_vars, tr_vars, task_vars, ses_vars>>
gom_frame == <<cm_vars, gsr_vars, tr_vars, task_vars, ses_vars>>
tr_frame == <<cm_vars, gsr_vars, gom_vars, task_vars, ses_vars>>
task_frame == <<cm_vars, tr_vars, ses_vars>>
ses_frame == <<cm_vars, tr_vars, task_vars, gom_calls>>

\* bounds
NumSubjects == 3        \* subject ids 1..NumSubjects
MaxPick == 2            \* a bounded random.choice draws among the first MaxPick candidates
MaxRandomDraws == 1     \* slots of a stored rule that are drawn at random
MaxSamplePick == 2      \* random.sample: candidates of the first draw
MaxCalls == 2           \* get_object_mapping calls explored
MaxChoice == 2          \* training2.py: a random choice draws among the first MaxChoice candidates
MaxDetours == 1         \* training2.py: per run, quizzes that end "incorrect" after all retries
                        \* plus draws that do not take the first candidate
MaxOpen == 1            \* open quizzes explored after the training loop of training2.py
MaxReshuffles == 1      \* reshuffles of the pictures explored per session

----------------------------------------------------------------------------
(* Python helpers *)

\* dict with no key
EmptyDict == [k \in {} |-> 0]

\* d[k] = v
DictSet(d, k, v) == [x \in (DOMAIN d) \cup {k} |-> IF x = k THEN v ELSE d[x]]

\* the elements of a list
Elems(list) == {list[i] : i \in 1..Len(list)}

\* mutant of ListRemove: the chosen code stays available
ListRemove_Keep(list, x) == list

\* list.remove(x): drops the first occurrence of x
ListRemove(list, x) ==
    LET first == CHOOSE i \in 1..Len(list) :
                    /\ list[i] = x
                    /\ \A j \in 1..(i-1) : list[j] # x
    IN  [i \in 1..(Len(list)-1) |-> IF i < first THEN list[i] ELSE list[i+1]]

----------------------------------------------------------------------------
(* utils.create_random_mapping *)

true_sequence_1 == <<"W", "X", "Y", "Z">>
true_sequence_2 == <<"Wp", "Xp", "Yp", "Zp">>

\* mutant of SubsetOfCode: both branches record 'seq1'
SubsetOfCode_AlwaysSeq1(code) == "seq1"

\* the subset recorded for a chosen code (utils.py 175-178)
SubsetOfCode(code) == IF code \in Elems(true_sequence_1) THEN "seq1" ELSE "seq2"

\* mutant of ValidCodes: the next slot is drawn from the same subset
ValidCodes_SameSubset(n, avail, subsets) ==
    IF n = 0 THEN avail
    ELSE IF n = 4 THEN avail
    ELSE IF subsets[n-1] = "seq1"
         THEN SelectSeq(avail, LAMBDA code : code \in Elems(true_sequence_1))
         ELSE SelectSeq(avail, LAMBDA code : code \in Elems(true_sequence_2))

\* mutant of ValidCodes: every slot is drawn from all remaining codes
ValidCodes_Unconstrained(n, avail, subsets) == avail

\* the list random.choice draws from at slot n (utils.py 151-166)
ValidCodes(n, avail, subsets) ==
    IF n = 0 THEN avail
    ELSE IF n = 4 THEN avail
    ELSE IF subsets[n-1] = "seq1"
         THEN SelectSeq(avail, LAMBDA code : code \in Elems(true_sequence_2))
         ELSE SelectSeq(avail, LAMBDA code : code \in Elems(true_sequence_1))

\* the body of one loop iteration once chosen_code is drawn (utils.py 170-178)
CmApply(n, avail, m, subsets, chosen_code) ==
    [num |-> n + 1,
     available_codes |-> ListRemove(avail, chosen_code),
     mapping |-> DictSet(m, chosen_code, n),
     number_subsets |-> DictSet(subsets, n, SubsetOfCode(chosen_code))]

CmStart ==
    /\ cm_pc = "loop"
    /\ num = 0
    /\ available_codes = true_sequence_1 \o true_sequence_2
    /\ mapping = EmptyDict
    /\ number_subsets = EmptyDict

\* one iteration of `for num in range(8)`; random.choice of an empty list
\* raises IndexError
CreateStep ==
    /\ cm_pc = "loop"
    /\ num < 8
    /\ LET valid_codes == ValidCodes(num, available_codes, number_subsets) IN
       IF valid_codes = <<>>
       THEN /\ cm_pc' = "IndexError"
            /\ UNCHANGED <<num, available_codes, mapping, number_subsets>>
            /\ UNCHANGED cm_frame
       ELSE \E i \in 1..Len(valid_codes) :
              LET st == CmApply(num, available_codes, mapping, number_subsets, valid_codes[i]) IN
              /\ mapping' = st.mapping
              /\ available_codes' = st.available_codes
              /\ number_subsets' = st.number_subsets
              /\ num' = st.num
              /\ cm_pc' = "loop"
              /\ UNCHANGED cm_frame

\* `return mapping` after the loop
CreateReturn ==
    /\ cm_pc = "loop"
    /\ num = 8
    /\ cm_pc' = "returned"
    /\ UNCHANGED <<num, available_codes, mapping, number_subsets>>
    /\ UNCHANGED cm_frame

CmIdle ==
    /\ cm_pc = "idle"
    /\ num = 0
    /\ available_codes = <<>>
    /\ mapping = EmptyDict
    /\ number_subsets = EmptyDict


\* the mappings create_random_mapping can return when the random.choice of each
\* of the first MaxRandomDraws slots draws among the first MaxPick candidates
\* of its list and the later slots take the first candidate
RECURSIVE CreateRandomMappings(_, _, _, _)
CreateRandomMappings(n, avail, m, subsets) ==
    IF n = 8 THEN {m}
    ELSE LET valid_codes == ValidCodes(n, avail, subsets)
             picks == IF n < MaxRandomDraws THEN MaxPick ELSE 1
             last == IF Len(valid_codes) < picks THEN Len(valid_codes) ELSE picks
         IN  UNION { LET st == CmApply(n, avail, m, subsets, valid_codes[i])
                     IN  CreateRandomMappings(st.num, st.available_codes,
                                              st.mapping, st.number_subsets)
                     : i \in 1..last }

create_random_mapping ==
    CreateRandomMappings(0, true_sequence_1 \o true_sequence_2, EmptyDict, EmptyDict)

----------------------------------------------------------------------------
(* utils.read_json / utils.write_json *)

\* a file is absent, holds text that json.load rejects, or holds a JSON object
FileMissing == [kind |-> "missing", data |-> EmptyDict]
FileMalformed == [kind |-> "malformed", data |-> EmptyDict]

\* mutant of read_json: JSONDecodeError is not caught
read_json_NoCatch(file) ==
    IF file.kind = "missing" THEN [raised |-> "none", value |-> EmptyDict]
    ELSE IF file.kind = "malformed" THEN [raised |-> "JSONDecodeError", value |-> EmptyDict]
    ELSE [raised |-> "none", value |-> file.data]

\* read_json: {} when the path does not exist or json.load raises
\* JSONDecodeError, else the decoded object
read_json(file) ==
    IF file.kind = "missing" THEN [raised |-> "none", value |-> EmptyDict]
    ELSE IF file.kind = "malformed" THEN [raised |-> "none", value |-> EmptyDict]
    ELSE [raised |-> "none", value |-> file.data]

\* write_json: the file now holds json.dump(data)
write_json(data) == [kind |-> "json", data |-> data]

SubjectIds == 1..NumSubjects

\* 'subject_' + str(subject_id)
SubjectStr(subject_id) == "subject_" \o ToString(subject_id)

----------------------------------------------------------------------------
(* utils.get_scrambling_rule *)

NoRule == [called |-> FALSE, found |-> "", raised |-> "none", subject |-> 0,
           created |-> FALSE, rule |-> EmptyDict]

GsrIdle ==
    /\ rules_file = FileMissing
    /\ gsr_ret = NoRule
    /\ gsr_first = EmptyDict

GsrInit ==
    /\ rules_file \in {FileMissing, FileMalformed}
    /\ gsr_ret = NoRule
    /\ gsr_first = EmptyDict

\* mutant of GsrOutcome: a new rule is generated and stored on every call
GsrOutcome_AlwaysNew(file, all_rules, subject_id, new_rule) ==
    [file |-> write_json(DictSet(all_rules, SubjectStr(subject_id), new_rule)),
     ret |-> [called |-> TRUE, found |-> file.kind, raised |-> "none",
              subject |-> subject_id, created |-> TRUE, rule |-> new_rule]]

\* the file and the result after the lookup of get_scrambling_rule: the stored
\* rule when there is one, else new_rule, added to the collection and saved;
\* found records what read_json met at the path
GsrOutcome(file, all_rules, subject_id, new_rule) ==
    LET subject_str == SubjectStr(subject_id) IN
    IF subject_str \in DOMAIN all_rules
    THEN [file |-> file,
          ret |-> [called |-> TRUE, found |-> file.kind, raised |-> "none",
                   subject |-> subject_id, created |-> FALSE,
                   rule |-> all_rules[subject_str]]]
    ELSE [file |-> write_json(DictSet(all_rules, subject_str, new_rule)),
          ret |-> [called |-> TRUE, found |-> file.kind, raised |-> "none",
                   subject |-> subject_id, created |-> TRUE, rule |-> new_rule]]

get_scrambling_rule(subject_id) ==
    LET all_rules == read_json(rules_file) IN
    IF all_rules.raised # "none"
    THEN /\ gsr_ret' = [called |-> TRUE, found |-> rules_file.kind,
                        raised |-> all_rules.raised, subject |-> subject_id,
                        created |-> FALSE, rule |-> EmptyDict]
         /\ UNCHANGED <<rules_file, gsr_first>>
    ELSE \E new_rule \in create_random_mapping :
           LET out == GsrOutcome(rules_file, all_rules.value, subject_id, new_rule) IN
           /\ rules_file' = out.file
           /\ gsr_ret' = out.ret
           /\ gsr_first' = IF SubjectStr(subject_id) \in DOMAIN gsr_first
                           THEN gsr_first
                           ELSE DictSet(gsr_first, SubjectStr(subject_id), out.ret.rule)

GetScramblingRule ==
    /\ \E subject_id \in SubjectIds : get_scrambling_rule(subject_id)
    /\ UNCHANGED gsr_frame

----------------------------------------------------------------------------
(* utils.get_object_mapping *)

SESSION1_OBJECTS == <<"1backpack", "1computer", "1fish", "1hair",
                      "1table", "1key", "1lettuce", "1boat">>
SESSION2_OBJECTS == <<"2beach", "2carrot", "2chair", "2drill",
                      "2hand", "2teapot", "2tree", "2turkey">>
TRAINING_OBJECTS == <<"3papaya", "3broccoli", "3eggplant", "3strawberry",
                      "3banana", "3fig", "3asparagus", "3pineapple">>

list_of_letters == <<"W", "X", "Y", "Z", "Wp", "Xp", "Yp", "Zp">>

Phases == {"training", "structure_learning", "applied_learning"}

\* the population sampled for a phase (utils.py 203-208)
PhaseObjects(phase) ==
    IF phase = "training" THEN TRAINING_OBJECTS
    ELSE IF phase = "structure_learning" THEN SESSION1_OBJECTS
    ELSE SESSION2_OBJECTS

\* mutant of RandomSample: the draws are made with replacement
RandomSample_WithReplacement(population) ==
    { [i \in 1..Len(population) |-> population[j]]
      : j \in 1..(IF Len(population) < MaxSamplePick
                  THEN Len(population) ELSE MaxSamplePick) }

\* random.sample(population, len(population)): the population in a random
\* order, without replacement.  The first draw is any of the first
\* MaxSamplePick elements; the remaining elements follow in list order.
RandomSample(population) ==
    { <<population[j]>> \o ListRemove(population, population[j])
      : j \in 1..(IF Len(population) < MaxSamplePick
                  THEN Len(population) ELSE MaxSamplePick) }

\* dict(zip(keys, values))
RECURSIVE DictZip(_, _)
DictZip(keys, values) ==
    IF keys = <<>> \/ values = <<>> THEN EmptyDict
    ELSE LET n == IF Len(keys) < Len(values) THEN Len(keys) ELSE Len(values)
         IN  DictSet(DictZip(SubSeq(keys, 1, n-1), SubSeq(values, 1, n-1)),
                     keys[n], values[n])

NoMapping == [called |-> FALSE, raised |-> "none", subject |-> 0, phase |-> "",
              force_new |-> FALSE, created |-> FALSE, mapping |-> EmptyDict]

GomIdle ==
    /\ mappings_file = FileMissing
    /\ gom_ret = NoMapping
    /\ gom_calls = 0

GomInit ==
    /\ mappings_file \in {FileMissing, FileMalformed}
    /\ gom_ret = NoMapping
    /\ gom_calls = 0

\* mutant of GomOutcome: a new mapping replaces the subject's whole entry
GomOutcome_ReplaceSubject(file, all_mappings, subject_id, phase, force_new, list_of_images) ==
    LET subject_str == SubjectStr(subject_id)
        call == [called |-> TRUE, raised |-> "none", subject |-> subject_id,
                 phase |-> phase, force_new |-> force_new]
    IN
    IF /\ subject_str \in DOMAIN all_mappings
       /\ ~force_new
       /\ phase \in DOMAIN all_mappings[subject_str]
    THEN [file |-> file,
          ret |-> call @@ [created |-> FALSE,
                           mapping |-> all_mappings[subject_str][phase]]]
    ELSE LET new_mapping == DictZip(list_of_letters, list_of_images)
             stored == DictSet(all_mappings, subject_str,
                               DictSet(EmptyDict, phase, new_mapping))
         IN  [file |-> write_json(stored),
              ret |-> call @@ [created |-> TRUE, mapping |-> new_mapping]]
\* the file and the result of get_object_mapping after the file is read
GomOutcome(file, all_mappings, subject_id, phase, force_new, list_of_images) ==
    LET subject_str == SubjectStr(subject_id)
        call == [called |-> TRUE, raised |-> "none", subject |-> subject_id,
                 phase |-> phase, force_new |-> force_new]
    IN
    IF /\ subject_str \in DOMAIN all_mappings
       /\ ~force_new
       /\ phase \in DOMAIN all_mappings[subject_str]
    THEN [file |-> file,
          ret |-> call @@ [created |-> FALSE,
                           mapping |-> all_mappings[subject_str][phase]]]
    ELSE LET new_mapping == DictZip(list_of_letters, list_of_images)
             with_subject == IF subject_str \notin DOMAIN all_mappings
                             THEN DictSet(all_mappings, subject_str, EmptyDict)
                             ELSE all_mappings
             stored == DictSet(with_subject, subject_str,
                               DictSet(with_subject[subject_str], phase, new_mapping))
         IN  [file |-> write_json(stored),
              ret |-> call @@ [created |-> TRUE, mapping |-> new_mapping]]

get_object_mapping(subject_id, phase, force_new) ==
    LET all_mappings == read_json(mappings_file) IN
    IF all_mappings.raised # "none"
    THEN /\ gom_ret' = [called |-> TRUE, raised |-> all_mappings.raised,
                        subject |-> subject_id, phase |-> phase,
                        force_new |-> force_new, created |-> FALSE,
                        mapping |-> EmptyDict]
         /\ UNCHANGED mappings_file
    ELSE \E list_of_images \in RandomSample(PhaseObjects(phase)) :
           LET out == GomOutcome(mappings_file, all_mappings.value, subject_id,
                                 phase, force_new, list_of_images) IN
           /\ mappings_file' = out.file
           /\ gom_ret' = out.ret

GetObjectMapping ==
    /\ gom_calls < MaxCalls
    /\ gom_calls' = gom_calls + 1
    /\ \E subject_id \in SubjectIds, phase \in Phases, force_new \in BOOLEAN :
          get_object_mapping(subject_id, phase, force_new)
    /\ UNCHANGED gom_frame


----------------------------------------------------------------------------
(* utils.get_pos_and_seq and the helpers of Training.run *)

true_state_names == <<"W", "X", "Y", "Z", "Wp", "Xp", "Yp", "Zp">>

States == Elems(true_state_names)

\* get_pos_and_seq: <<pos, seq>>; "p" occurs in exactly the names of sequence 2
get_pos_and_seq(state_name) ==
    IF state_name \in {"Wp", "Xp", "Yp", "Zp"}
    THEN <<[Wp |-> 1, Xp |-> 2, Yp |-> 3, Zp |-> 4][state_name], 2>>
    ELSE <<[W |-> 1, X |-> 2, Y |-> 3, Z |-> 4][state_name], 1>>

SeqOf(state_name) == get_pos_and_seq(state_name)[2]
PosOf(state_name) == get_pos_and_seq(state_name)[1]

\* reverse_state_lookup: the state a rule puts at a scrambled position
reverse_state_lookup(rule, scrambled_position) ==
    CHOOSE key \in DOMAIN rule : rule[key] = scrambled_position

\* mutant of MinLevel: max instead of min
MinLevel_Max(dict_of_levels) ==
    CHOOSE v \in {dict_of_levels[k] : k \in DOMAIN dict_of_levels} :
        \A k \in DOMAIN dict_of_levels : v >= dict_of_levels[k]

\* min(learning_levels.values())
MinLevel(dict_of_levels) ==
    CHOOSE v \in {dict_of_levels[k] : k \in DOMAIN dict_of_levels} :
        \A k \in DOMAIN dict_of_levels : v <= dict_of_levels[k]

\* mutant of states_at_level: the states at or above the level
states_at_level_AtLeast(dict_of_levels, level) ==
    SelectSeq(true_state_names, LAMBDA k : dict_of_levels[k] >= level)

states_at_level(dict_of_levels, level) ==
    SelectSeq(true_state_names, LAMBDA k : dict_of_levels[k] = level)

states_above_level(dict_of_levels, level) ==
    SelectSeq(true_state_names, LAMBDA k : dict_of_levels[k] > level)

\* the keys event.waitKeys can return on a quiz screen
QuizKeys == {"left", "right", "escape"}

\* correct_bool of the sequence quiz
SeqQuizResult(state_name, key) ==
    IF \/ (key = "left" /\ SeqOf(state_name) = 1)
       \/ (key = "right" /\ SeqOf(state_name) = 2)
    THEN "correct" ELSE "incorrect"

\* correct_bool of the order quiz
OrderQuizResult(state_1, state_2, key) ==
    LET first_on_left == PosOf(state_1) < PosOf(state_2) IN
    IF \/ (key = "left" /\ ~first_on_left)
       \/ (key = "right" /\ first_on_left)
    THEN "correct" ELSE "incorrect"

\* mutant of LevelUp: the level rises by 2
LevelUp_ByTwo(levels, state_name) == [levels EXCEPT ![state_name] = @ + 2]

\* learning_levels[state] += 1
LevelUp(levels, state_name) == [levels EXCEPT ![state_name] = @ + 1]

----------------------------------------------------------------------------
(* training.py: the adaptive loop of Training.run *)

TrIdle ==
    /\ script = "none"
    /\ pc = "idle"
    /\ learning_levels = [state \in States |-> 0]
    /\ current_lowest_level = 0
    /\ true_state = "None"
    /\ true_state_2 = "None"
    /\ perfect_rounds = 0
    /\ train_state_1 = "None"
    /\ train_state_2 = "None"
    /\ quiz_state_1 = "None"
    /\ quiz_state_2 = "None"
    /\ call_site = "none"
    /\ quiz_result = "none"
    /\ quiz_result_2 = "none"
    /\ retry_count = 0
    /\ open_ix = 0
    /\ asked = <<>>
    /\ n_detours = 0
    /\ rows_written = 0
    /\ last_result = "none"
    /\ shown = <<>>
    /\ behavior_file_open = FALSE

\* the state when the `while current_lowest_level < 3` loop is first reached
TrStart(which) ==
    /\ script = which
    /\ pc = "while"
    /\ learning_levels = [state \in States |-> 0]
    /\ current_lowest_level = MinLevel([state \in States |-> 0])
    /\ true_state = "None"
    /\ true_state_2 = "None"
    /\ perfect_rounds = 0
    /\ train_state_1 = "None"
    /\ train_state_2 = "None"
    /\ quiz_state_1 = "None"
    /\ quiz_state_2 = "None"
    /\ call_site = "none"
    /\ quiz_result = "none"
    /\ quiz_result_2 = "none"
    /\ retry_count = 0
    /\ open_ix = 0
    /\ asked = <<>>
    /\ n_detours = 0
    /\ rows_written = 0
    /\ last_result = "none"
    /\ shown = <<>>
    /\ behavior_file_open = TRUE

t2_only == <<train_state_1, train_state_2, quiz_state_1, quiz_state_2,
             call_site, retry_count, open_ix, n_detours, rows_written,
                           last_result, shown>>

\* the loop test holds: a state of the least-learned tier is drawn
TrStartRound ==
    /\ script = "training" /\ pc = "while"
    /\ current_lowest_level < 3
    /\ LET candidates == states_at_level(learning_levels, current_lowest_level) IN
       IF candidates = <<>>
       THEN /\ pc' = "IndexError"
            /\ UNCHANGED <<true_state, asked>>
       ELSE /\ \E i \in 1..Len(candidates) : true_state' = candidates[i]
            /\ pc' = "seq_quiz"
            /\ asked' = <<>>
    /\ UNCHANGED <<script, learning_levels, current_lowest_level, true_state_2,
                   quiz_result, quiz_result_2>>
    /\ UNCHANGED t2_only
    /\ UNCHANGED behavior_file_open
    /\ UNCHANGED perfect_rounds
    /\ UNCHANGED tr_frame

\* the loop test fails: "All done"
TrExitLoop ==
    /\ script = "training" /\ pc = "while"
    /\ ~(current_lowest_level < 3)
    /\ pc' = "done"
    /\ UNCHANGED <<script, learning_levels, current_lowest_level, true_state,
                   true_state_2, quiz_result, quiz_result_2, asked>>
    /\ UNCHANGED t2_only
    /\ UNCHANGED behavior_file_open
    /\ UNCHANGED perfect_rounds
    /\ UNCHANGED tr_frame

\* seq_quiz_screen(true_state); escape runs the global key handler _exit
TrSeqQuiz ==
    /\ script = "training" /\ pc = "seq_quiz"
    /\ \E key \in QuizKeys :
         IF key = "escape"
         THEN /\ pc' = "exited"
              /\ UNCHANGED <<quiz_result, asked>>
         ELSE /\ quiz_result' = SeqQuizResult(true_state, key)
              /\ asked' = Append(asked, "sequence")
              /\ pc' = "partner"
    /\ UNCHANGED <<script, learning_levels, current_lowest_level, true_state,
                   true_state_2, quiz_result_2>>
    /\ UNCHANGED t2_only
    /\ behavior_file_open' = (behavior_file_open /\ pc' # "exited")
    /\ perfect_rounds' = IF quiz_result' = "incorrect" THEN -1 ELSE perfect_rounds
    /\ UNCHANGED tr_frame

\* mutant of states_in_same_seq: only states above level 1 are partners
states_in_same_seq_Above1(levels, state_name) ==
    SelectSeq(states_above_level(levels, 1),
              LAMBDA s : SeqOf(state_name) = SeqOf(s) /\ s # state_name)

\* mutant of states_in_same_seq: the sequence is not compared
states_in_same_seq_AnySequence(levels, state_name) ==
    SelectSeq(states_above_level(levels, 0), LAMBDA s : s # state_name)

\* the states an order quiz may compare true_state with (training.py 404)
states_in_same_seq(levels, state_name) ==
    SelectSeq(states_above_level(levels, 0),
              LAMBDA s : SeqOf(state_name) = SeqOf(s) /\ s # state_name)

\* lines 402-406: the partner of the order quiz is drawn, if there is one
TrChoosePartner ==
    /\ script = "training" /\ pc = "partner"
    /\ LET partners == states_in_same_seq(learning_levels, true_state) IN
       IF partners # <<>>
       THEN /\ \E i \in 1..Len(partners) : true_state_2' = partners[i]
            /\ quiz_result_2' = "correct"
            /\ pc' = "order_quiz"
       ELSE /\ true_state_2' = "None"
            /\ quiz_result_2' = "correct"
            /\ pc' = "update"
    /\ UNCHANGED <<script, learning_levels, current_lowest_level, true_state,
                   quiz_result, asked>>
    /\ UNCHANGED t2_only
    /\ UNCHANGED behavior_file_open
    /\ UNCHANGED perfect_rounds
    /\ UNCHANGED tr_frame

\* order_quiz_screen(true_state, true_state_2)
TrOrderQuiz ==
    /\ script = "training" /\ pc = "order_quiz"
    /\ IF SeqOf(true_state) # SeqOf(true_state_2)
       THEN /\ pc' = "AssertionError"
            /\ UNCHANGED <<quiz_result_2, asked>>
       ELSE \E key \in QuizKeys :
              IF key = "escape"
              THEN /\ pc' = "exited"
                   /\ UNCHANGED <<quiz_result_2, asked>>
              ELSE /\ quiz_result_2' = OrderQuizResult(true_state, true_state_2, key)
                   /\ asked' = Append(asked, "order")
                   /\ pc' = "update"
    /\ UNCHANGED <<script, learning_levels, current_lowest_level, true_state,
                   true_state_2, quiz_result>>
    /\ UNCHANGED t2_only
    /\ behavior_file_open' = (behavior_file_open /\ pc' # "exited")
    /\ perfect_rounds' = IF quiz_result_2' = "incorrect" THEN -1 ELSE perfect_rounds
    /\ UNCHANGED tr_frame

\* mutant of TrNewLevels: the levels are lowered without the `> 1` tests
TrNewLevels_NoFloor(levels, state_1, state_2, result_1, result_2) ==
    IF result_1 = "correct" /\ result_2 = "correct"
    THEN LevelUp(levels, state_1)
    ELSE LET after_1 == [levels EXCEPT ![state_1] = @ - 1]
         IN  IF state_2 # "None"
             THEN [after_1 EXCEPT ![state_2] = @ - 1] ELSE after_1

\* mutant of TrNewLevels: one correct quiz is enough to raise the level
TrNewLevels_EitherCorrect(levels, state_1, state_2, result_1, result_2) ==
    IF result_1 = "correct" \/ result_2 = "correct"
    THEN LevelUp(levels, state_1)
    ELSE LET after_1 == IF levels[state_1] > 1
                        THEN [levels EXCEPT ![state_1] = @ - 1] ELSE levels
         IN  IF state_2 # "None" /\ after_1[state_2] > 1
             THEN [after_1 EXCEPT ![state_2] = @ - 1] ELSE after_1

\* mutant of TrNewLevels: the levels are lowered while above 0
TrNewLevels_FloorAtZero(levels, state_1, state_2, result_1, result_2) ==
    IF result_1 = "correct" /\ result_2 = "correct"
    THEN LevelUp(levels, state_1)
    ELSE LET after_1 == IF levels[state_1] > 0
                        THEN [levels EXCEPT ![state_1] = @ - 1] ELSE levels
         IN  IF state_2 # "None" /\ after_1[state_2] > 0
             THEN [after_1 EXCEPT ![state_2] = @ - 1] ELSE after_1

\* the levels after lines 410-417
TrNewLevels(levels, state_1, state_2, result_1, result_2) ==
    IF result_1 = "correct" /\ result_2 = "correct"
    THEN LevelUp(levels, state_1)
    ELSE LET after_1 == IF levels[state_1] > 1
                        THEN [levels EXCEPT ![state_1] = @ - 1] ELSE levels
         IN  IF state_2 # "None" /\ after_1[state_2] > 1
             THEN [after_1 EXCEPT ![state_2] = @ - 1] ELSE after_1

\* lines 410-419: the levels are updated and the lowest level recomputed
TrUpdate ==
    /\ script = "training" /\ pc = "update"
    /\ LET new_levels == TrNewLevels(learning_levels, true_state, true_state_2,
                                     quiz_result, quiz_result_2) IN
       /\ learning_levels' = new_levels
       /\ current_lowest_level' = MinLevel(new_levels)
    /\ pc' = "while"
    /\ UNCHANGED <<script, true_state, true_state_2, quiz_result, quiz_result_2,
                   asked>>
    /\ UNCHANGED t2_only
    /\ UNCHANGED behavior_file_open
    /\ perfect_rounds' = IF perfect_rounds >= 0 THEN perfect_rounds + 1 ELSE -1
    /\ UNCHANGED tr_frame

----------------------------------------------------------------------------
(* training2.py: the training loop, do_quizzes and the open quizzes *)

tr_only == <<true_state, true_state_2, perfect_rounds>>

\* the indices a bounded random choice may draw from a list
Draws(list) == 1..(IF Len(list) < MaxChoice THEN Len(list) ELSE MaxChoice)

\* the draws i, j are within the bound on draws that leave the first candidate
Deviate(i, j) ==
    LET cost == (IF i > 1 THEN 1 ELSE 0) + (IF j > 1 THEN 1 ELSE 0) IN
    /\ n_detours + cost <= MaxDetours
    /\ n_detours' = n_detours + cost

\* mutant of random_state_from_same_seq: the sequence is not compared
random_state_from_same_seq_AnySeq(state_name) ==
    SelectSeq(true_state_names, LAMBDA s : s # state_name)

\* random_state_from_same_seq: the other states of the same true sequence
random_state_from_same_seq(state_name) ==
    SelectSeq(true_state_names,
              LAMBDA s : SeqOf(state_name) = SeqOf(s) /\ s # state_name)

\* the outer loop test holds: train_state_1 is drawn from the least-learned
\* tier and train_state_2 from the same true sequence
T2StartRound ==
    /\ script = "training2" /\ pc = "while"
    /\ current_lowest_level < 3
    /\ LET states_at_lowest_level == states_at_level(learning_levels, current_lowest_level) IN
       IF states_at_lowest_level = <<>>
       THEN /\ pc' = "IndexError"
            /\ UNCHANGED <<train_state_1, train_state_2, n_detours>>
       ELSE /\ \E i \in Draws(states_at_lowest_level) :
                 LET state_1 == states_at_lowest_level[i]
                     others == random_state_from_same_seq(state_1) IN
                 /\ train_state_1' = state_1
                 /\ \E j \in Draws(others) :
                       /\ train_state_2' = others[j]
                       /\ Deviate(i, j)
            /\ pc' = "inner"
    /\ UNCHANGED <<script, learning_levels, current_lowest_level, quiz_state_1,
                   quiz_state_2, call_site, quiz_result, quiz_result_2,
                   retry_count, open_ix, asked>>
    /\ UNCHANGED tr_only
    /\ UNCHANGED <<rows_written, last_result, shown,
                   behavior_file_open>>
    /\ UNCHANGED tr_frame

\* the outer loop test fails: the open quizzes begin
T2ExitLoop ==
    /\ script = "training2" /\ pc = "while"
    /\ ~(current_lowest_level < 3)
    /\ pc' = "open"
    /\ UNCHANGED <<script, learning_levels, current_lowest_level, train_state_1,
                   train_state_2, quiz_state_1, quiz_state_2, call_site,
                   quiz_result, quiz_result_2, retry_count, open_ix, asked,
                   n_detours>>
    /\ UNCHANGED tr_only
    /\ UNCHANGED <<rows_written, last_result, shown,
                   behavior_file_open>>
    /\ UNCHANGED tr_frame

\* do_quizzes is entered: its sequence-quiz wrapper starts with retry_count = 0
EnterDoQuizzes(state_1, state_2, site) ==
    /\ quiz_state_1' = state_1
    /\ quiz_state_2' = state_2
    /\ call_site' = site
    /\ retry_count' = 0
    /\ asked' = <<>>
    /\ rows_written' = 0
    /\ last_result' = "none"
    /\ shown' = <<>>
    /\ pc' = "seq_quiz"

\* the inner loop test holds: the train states are quizzed in a random order
T2InnerQuiz ==
    /\ script = "training2" /\ pc = "inner"
    /\ learning_levels[train_state_1] < 3 \/ learning_levels[train_state_2] < 3
    /\ LET samples == <<<<train_state_1, train_state_2>>, <<train_state_2, train_state_1>>>> IN
       \E i \in Draws(samples) :
          /\ EnterDoQuizzes(samples[i][1], samples[i][2], "train")
          /\ Deviate(i, 1)
    /\ UNCHANGED <<script, learning_levels, current_lowest_level, train_state_1,
                   train_state_2, quiz_result, quiz_result_2, open_ix>>
    /\ UNCHANGED tr_only
    /\ UNCHANGED behavior_file_open
    /\ UNCHANGED tr_frame

\* the inner loop test fails: the lowest level is recomputed (line 722)
T2InnerExit ==
    /\ script = "training2" /\ pc = "inner"
    /\ ~(learning_levels[train_state_1] < 3 \/ learning_levels[train_state_2] < 3)
    /\ current_lowest_level' = MinLevel(learning_levels)
    /\ pc' = "while"
    /\ UNCHANGED <<script, learning_levels, train_state_1, train_state_2,
                   quiz_state_1, quiz_state_2, call_site, quiz_result,
                   quiz_result_2, retry_count, open_ix, asked, n_detours>>
    /\ UNCHANGED tr_only
    /\ UNCHANGED <<rows_written, last_result, shown,
                   behavior_file_open>>
    /\ UNCHANGED tr_frame

max_retries == 5

\* mutant of T2SeqLevels: the level is lowered without the `> 0` test
T2SeqLevels_NoFloor(levels, state_1, result_1) ==
    IF result_1 = "correct"
    THEN LevelUp(levels, state_1)
    ELSE [levels EXCEPT ![state_1] = @ - 1]

\* the levels after the sequence quiz of do_quizzes (lines 649-654)
T2SeqLevels(levels, state_1, result_1) ==
    IF result_1 = "correct"
    THEN LevelUp(levels, state_1)
    ELSE IF levels[state_1] > 0
         THEN [levels EXCEPT ![state_1] = @ - 1]
         ELSE levels

\* mutant of T2OrderLevels: an incorrect order quiz lowers both states by 1
T2OrderLevels_Decrement(levels, state_1, state_2, result_2) ==
    IF result_2 = "correct"
    THEN LevelUp(LevelUp(levels, state_1), state_2)
    ELSE [[levels EXCEPT ![state_1] = @ - 1] EXCEPT ![state_2] = @ - 1]

\* the levels after the order quiz of do_quizzes (lines 669-674)
T2OrderLevels(levels, state_1, state_2, result_2) ==
    IF result_2 = "correct"
    THEN LevelUp(LevelUp(levels, state_1), state_2)
    ELSE [[levels EXCEPT ![state_1] = 0] EXCEPT ![state_2] = 0]

\* mutant of seq_quiz_screen_base: the row is saved before the escape test
seq_quiz_screen_base_RowBeforeEscape(state_name, key) ==
    [result |-> IF key = "escape" THEN "escape" ELSE SeqQuizResult(state_name, key),
     rows |-> 1]

\* seq_quiz_screen_base (training2.py 341-413): the result it returns for a
\* key, and the number of rows it saves to the behaviour file
seq_quiz_screen_base(state_name, key) ==
    IF key = "escape" THEN [result |-> "escape", rows |-> 0]
    ELSE [result |-> SeqQuizResult(state_name, key), rows |-> 1]

\* order_quiz_screen_base (training2.py 415-495) past its assertion
order_quiz_screen_base(state_1, state_2, key) ==
    IF key = "escape" THEN [result |-> "escape", rows |-> 0]
    ELSE [result |-> OrderQuizResult(state_1, state_2, key), rows |-> 1]

\* mutant of wrapper_returns: the loop test is made before the increment
wrapper_returns_OffByOne(result, retries) ==
    result \in {"correct", "escape"} \/ ~(retries < max_retries)
\* the retry wrappers (498-523, 525-550) after an attempt that gave `result`
\* with retry_count = retries: the result is returned at once (line 508 / 535),
\* or after the increment the test `retry_count < max_retries` fails
wrapper_returns(result, retries) ==
    result \in {"correct", "escape"} \/ ~(retries + 1 < max_retries)

\* lines 511-513 / 538-540: what the wrapper shows after an incorrect attempt
retry_screens == <<"rule_screen", "scrambled_sequences_screen">>

\* one attempt of seq_quiz_screen(quiz_state_1) inside do_quizzes, with the
\* screens that follow an incorrect answer: escape at the question closes the
\* session; a correct answer, or the max_retries-th incorrect one, returns
T2SeqAttempt ==
    /\ script = "training2" /\ pc = "seq_quiz"
    /\ \E key \in QuizKeys :
         LET base == seq_quiz_screen_base(quiz_state_1, key)
             result == base.result
             returns == wrapper_returns(result, retry_count)
             new_levels == T2SeqLevels(learning_levels, quiz_state_1, result)
         IN
         /\ asked' = IF retry_count = 0 THEN Append(asked, "sequence") ELSE asked
         /\ rows_written' = rows_written + base.rows
         /\ last_result' = result
         /\ IF result = "escape"
            THEN /\ pc' = "exited"
                 /\ quiz_result' = result
                 /\ shown' = <<>>
                 /\ UNCHANGED <<learning_levels, retry_count, n_detours>>
            ELSE IF returns
            THEN /\ result = "incorrect" => n_detours < MaxDetours
                 /\ n_detours' = IF result = "incorrect"
                                 THEN n_detours + 1 ELSE n_detours
                 /\ shown' = IF result = "incorrect" THEN retry_screens ELSE <<>>
                 /\ learning_levels' = new_levels
                 /\ quiz_result' = result
                 /\ retry_count' = 0
                 /\ pc' = "order_quiz"
            ELSE /\ retry_count' = retry_count + 1
                 /\ shown' = retry_screens
                 /\ UNCHANGED <<learning_levels, quiz_result, pc, n_detours>>
    /\ UNCHANGED <<script, current_lowest_level, train_state_1, train_state_2,
                   quiz_state_1, quiz_state_2, call_site, quiz_result_2, open_ix>>
    /\ UNCHANGED tr_only
    /\ behavior_file_open' = (behavior_file_open /\ pc' # "exited")
    /\ UNCHANGED tr_frame

\* one attempt of order_quiz_screen(quiz_state_1, quiz_state_2) inside do_quizzes
T2OrderAttempt ==
    /\ script = "training2" /\ pc = "order_quiz"
    /\ IF SeqOf(quiz_state_1) # SeqOf(quiz_state_2)
       THEN /\ pc' = "AssertionError"
            /\ UNCHANGED <<learning_levels, quiz_result_2, retry_count, asked,
                           n_detours, rows_written, last_result, shown>>
       ELSE \E key \in QuizKeys :
         LET base == order_quiz_screen_base(quiz_state_1, quiz_state_2, key)
             result == base.result
             returns == wrapper_returns(result, retry_count)
             new_levels == T2OrderLevels(learning_levels, quiz_state_1, quiz_state_2, result)
         IN
         /\ asked' = IF retry_count = 0 THEN Append(asked, "order") ELSE asked
         /\ rows_written' = rows_written + base.rows
         /\ last_result' = result
         /\ IF result = "escape"
            THEN /\ pc' = "exited"
                 /\ quiz_result_2' = result
                 /\ shown' = <<>>
                 /\ UNCHANGED <<learning_levels, retry_count, n_detours>>
            ELSE IF returns
            THEN /\ result = "incorrect" => n_detours < MaxDetours
                 /\ n_detours' = IF result = "incorrect"
                                 THEN n_detours + 1 ELSE n_detours
                 /\ shown' = IF result = "incorrect" THEN retry_screens ELSE <<>>
                 /\ learning_levels' = new_levels
                 /\ quiz_result_2' = result
                 /\ retry_count' = 0
                 /\ pc' = "quizzed"
            ELSE /\ retry_count' = retry_count + 1
                 /\ shown' = retry_screens
                 /\ UNCHANGED <<learning_levels, quiz_result_2, pc, n_detours>>
    /\ UNCHANGED <<script, current_lowest_level, train_state_1, train_state_2,
                   quiz_state_1, quiz_state_2, call_site, quiz_result, open_ix>>
    /\ UNCHANGED tr_only
    /\ behavior_file_open' = (behavior_file_open /\ pc' # "exited")
    /\ UNCHANGED tr_frame

\* do_quizzes has returned to its caller; its parameters and locals are gone
T2Return ==
    /\ script = "training2" /\ pc = "quizzed"
    /\ pc' = IF call_site = "train" THEN "strong"
             ELSE IF call_site = "strong" THEN "inner"
             ELSE "open"
    /\ open_ix' = IF call_site = "open" THEN open_ix + 1 ELSE open_ix
    /\ quiz_state_1' = "None"
    /\ quiz_state_2' = "None"
    /\ call_site' = "none"
    /\ quiz_result' = "none"
    /\ quiz_result_2' = "none"
    /\ asked' = <<>>
    /\ rows_written' = 0
    /\ last_result' = "none"
    /\ shown' = <<>>
    /\ UNCHANGED <<script, learning_levels, current_lowest_level, train_state_1,
                   train_state_2, retry_count, n_detours>>
    /\ UNCHANGED tr_only
    /\ UNCHANGED behavior_file_open
    /\ UNCHANGED tr_frame

\* combinations(list, 2) filtered as in random_same_seq_pair
RECURSIVE SameSeqPairs(_)
SameSeqPairs(list) ==
    IF Len(list) < 2 THEN <<>>
    ELSE LET rest == Tail(list)
             with_head == [i \in 1..Len(rest) |-> <<Head(list), rest[i]>>]
         IN  SelectSeq(with_head, LAMBDA pr : SeqOf(pr[1]) = SeqOf(pr[2]))
             \o SameSeqPairs(rest)

\* both orders of each pair of a list of pairs
RECURSIVE BothOrders(_)
BothOrders(pairs) ==
    IF pairs = <<>> THEN <<>>
    ELSE <<Head(pairs), <<Head(pairs)[2], Head(pairs)[1]>>>> \o BothOrders(Tail(pairs))

\* mutant of strong_pairs: the train states are not taken out of strong_states
strong_pairs_KeepTrainStates(levels, state_1, state_2) ==
    BothOrders(SameSeqPairs(states_above_level(levels, 1)))
\* the pairs random_same_seq_pair may return (lines 714-716): list(set) fixes
\* no order of strong_states_diff, so each pair may come out either way round
strong_pairs(levels, state_1, state_2) ==
    LET strong_states == states_above_level(levels, 1)
        strong_states_diff == SelectSeq(strong_states, LAMBDA s : s \notin {state_1, state_2})
    IN  BothOrders(SameSeqPairs(strong_states_diff))

\* lines 714-719: two other well-learned states are quizzed, if there are any
T2StrongPair ==
    /\ script = "training2" /\ pc = "strong"
    /\ LET pairs == strong_pairs(learning_levels, train_state_1, train_state_2) IN
       IF pairs # <<>>
       THEN \E i \in Draws(pairs) :
              /\ EnterDoQuizzes(pairs[i][1], pairs[i][2], "strong")
              /\ Deviate(i, 1)
       ELSE /\ pc' = "inner"
            /\ UNCHANGED <<quiz_state_1, quiz_state_2, call_site, retry_count,
                           asked, n_detours, rows_written,
                           last_result, shown>>
    /\ UNCHANGED <<script, learning_levels, current_lowest_level, train_state_1,
                   train_state_2, quiz_result, quiz_result_2, open_ix>>
    /\ UNCHANGED tr_only
    /\ UNCHANGED behavior_file_open
    /\ UNCHANGED tr_frame

N_OPEN_QUIZZES == 40

\* one iteration of `for _ in range(40)`; only the first MaxOpen are explored
T2OpenQuiz ==
    /\ script = "training2" /\ pc = "open"
    /\ open_ix < N_OPEN_QUIZZES
    /\ open_ix < MaxOpen
    /\ \E i \in Draws(true_state_names) :
         LET state_1 == true_state_names[i]
             others == random_state_from_same_seq(state_1) IN
         \E j \in Draws(others) :
            /\ EnterDoQuizzes(state_1, others[j], "open")
            /\ Deviate(i, j)
    /\ UNCHANGED <<script, learning_levels, current_lowest_level, train_state_1,
                   train_state_2, quiz_result, quiz_result_2, open_ix>>
    /\ UNCHANGED tr_only
    /\ UNCHANGED behavior_file_open
    /\ UNCHANGED tr_frame

----------------------------------------------------------------------------
(* trigger.py: MetaPort *)

names == {"Socks", "Key", "Belt", "Pen", "Clock", "Book", "Grapes", "Comb"}

\* the keys of the dict human_to_byte (trigger.py 16-37)
human_to_byte ==
    {"Stim/" \o name : name \in names}
    \cup {"Cue/" \o cue : cue \in {"neither", "first", "second"}}
    \cup {"Question/first_" \o name_1 \o "/then_" \o name_2 : name_1 \in names, name_2 \in names}
    \cup {"Answer/" \o answer \o "/" \o correct : answer \in {"Yes", "No"},
                                                   correct \in {"Correct", "Incorrect"}}
    \cup {"Test"}

\* a Python str passed as an argument
Str(text) == [type |-> "str", value |-> text]

\* a Python dict passed as an argument
Dict(record) == [type |-> "dict", value |-> record]

\* MetaPort.write(message): what the call raises.  message["event_type"]
\* (line 76) needs a mapping: on a str it raises TypeError; a dict needs the
\* keys read at lines 76-82 and an event_type that human_to_byte knows
MetaPort_write(message) ==
    IF message.type = "str" THEN "TypeError"
    ELSE IF ~({"event_type", "trial_i", "item_i", "run"} \subseteq DOMAIN message.value)
    THEN "KeyError"
    ELSE IF message.value.event_type \notin human_to_byte THEN "KeyError"
    ELSE "none"

\* the first exception raised by a list of calls made one after the other
RECURSIVE FirstRaised(_)
FirstRaised(outcomes) ==
    IF outcomes = <<>> THEN "none"
    ELSE IF Head(outcomes) # "none" THEN Head(outcomes)
    ELSE FirstRaised(Tail(outcomes))

----------------------------------------------------------------------------
(* applied_learning.py and functional_localizer.py *)

N_RUNS == 3
N_PROBES == 40
N_TRIALS == 240

TaskIdle ==
    /\ task = "none"
    /\ task_pc = "idle"
    /\ task_subject = 0
    /\ is_connected = FALSE
    /\ run = 0
    /\ screens_shown = 0
    /\ probe_ix = 0
    /\ trial_num = 0
    /\ trials_begun = 0
    /\ behavior_rows = <<>>

\* main(): the task object is about to be constructed for a subject
TaskStart ==
    /\ task \in {"applied_learning", "functional_localizer"}
    /\ task_pc = "post_init"
    /\ task_subject \in SubjectIds
    /\ is_connected = FALSE
    /\ run = 0
    /\ screens_shown = 0
    /\ probe_ix = 0
    /\ trial_num = 0
    /\ trials_begun = 0
    /\ behavior_rows = <<>>

loop_vars == <<run, screens_shown, probe_ix, trial_num, trials_begun, behavior_rows>>

\* AppliedLearning.__post_init__: rule and mapping are loaded, the mock port
\* is made (actual_meg = False) and the behaviour file gets its header
AlPostInit ==
    /\ task = "applied_learning" /\ task_pc = "post_init"
    /\ get_scrambling_rule(task_subject)
    /\ get_object_mapping(task_subject, "applied_learning", FALSE)
    /\ gom_calls' = gom_calls + 1
    /\ is_connected' = FALSE
    /\ task_pc' = "wait_space"
    /\ UNCHANGED <<task, task_subject>>
    /\ UNCHANGED loop_vars
    /\ UNCHANGED task_frame

\* FunctionalLocalizer.__post_init__: MetaPort(subject_id, True) opens the
\* parallel port, or prints an error and calls sys.exit(1) (trigger.py 58-65)
FlPostInit ==
    /\ task = "functional_localizer" /\ task_pc = "post_init"
    /\ \E port_opens \in BOOLEAN :
         IF port_opens
         THEN /\ is_connected' = TRUE
              /\ task_pc' = "wait_space"
         ELSE /\ is_connected' = FALSE
              /\ task_pc' = "SystemExit"
    /\ UNCHANGED <<task, task_subject>>
    /\ UNCHANGED loop_vars
    /\ UNCHANGED <<gsr_vars, gom_vars>>
    /\ UNCHANGED task_frame

\* run(): the instructions are up and event.waitKeys(keyList=['space']) returns
TaskSpace ==
    /\ task_pc = "wait_space"
    /\ task_pc' = "loop"
    /\ UNCHANGED <<task, task_subject, is_connected>>
    /\ UNCHANGED loop_vars
    /\ UNCHANGED <<gsr_vars, gom_vars>>
    /\ UNCHANGED task_frame

\* escape while the task waits for space: the global key handler _exit closes
\* the files and ends the process
TaskEscape ==
    /\ task_pc = "wait_space"
    /\ task_pc' = "exited"
    /\ UNCHANGED <<task, task_subject, is_connected>>
    /\ UNCHANGED loop_vars
    /\ UNCHANGED <<gsr_vars, gom_vars>>
    /\ UNCHANGED task_frame

\* utils.pos_and_seq_to_state
pos_and_seq_to_state(pos, seq) ==
    IF seq = 1 THEN <<"W", "X", "Y", "Z">>[pos] ELSE <<"Wp", "Xp", "Yp", "Zp">>[pos]

\* the random draws of one quiz_screen call (applied_learning.py 221-248)
QuizDraws ==
    { [probe_state |-> pos_and_seq_to_state(prob_pos, prob_seq),
       correct_state |-> pos_and_seq_to_state(correct_pos, prob_seq),
       incorrect_state |-> pos_and_seq_to_state(incorrect[1], incorrect[2]),
       correct_on_left |-> correct_on_left]
      : prob_seq \in {1, 2}, prob_pos \in {1, 2, 3}, correct_pos \in 2..4,
        incorrect \in (1..4) \X {1, 2}, correct_on_left \in BOOLEAN }

\* the draws quiz_screen can make: the correct choice comes later than the
\* probe; the incorrect one is earlier in the probe's sequence or anywhere in
\* the other sequence
ValidQuizDraws ==
    { d \in QuizDraws :
        /\ SeqOf(d.correct_state) = SeqOf(d.probe_state)
        /\ PosOf(d.correct_state) > PosOf(d.probe_state)
        /\ SeqOf(d.incorrect_state) = SeqOf(d.probe_state)
              => PosOf(d.incorrect_state) < PosOf(d.probe_state) }

\* what event.waitKeys(maxWait=...) can return on a trial: a key, or nothing
\* when the response window passes
NoKey == "timeout"

\* scrambled_sequences_screen(which_seq): what the call raises; each of its 4
\* positions writes the triggers 'fixation' and state_name
scrambled_sequences_screen(rule, which_seq) ==
    LET sp_list == IF which_seq = 1 THEN <<0, 1, 2, 3>> ELSE <<4, 5, 6, 7>>
        writes(scrambled_position) ==
            <<MetaPort_write(Str("fixation")),
              MetaPort_write(Str(reverse_state_lookup(rule, scrambled_position)))>>
    IN  FirstRaised(writes(sp_list[1]) \o writes(sp_list[2])
                    \o writes(sp_list[3]) \o writes(sp_list[4]))

\* quiz_screen(run_number) of applied_learning.py for given draws and key_data:
\* what it raises and the rows it has written by then
quiz_screen(run_number, d, key_data) ==
    LET before_keys == FirstRaised(<<MetaPort_write(Str("quiz_text")),
                                     MetaPort_write(Str("probe_state")),
                                     MetaPort_write(Str("quiz_choices"))>>)
        after_keys == IF key_data = NoKey
                      THEN MetaPort_write(Str("timeout_message"))
                      ELSE MetaPort_write(Str(key_data \o "_press"))
        sj_correctness == IF key_data = NoKey THEN FALSE
                          ELSE \/ (key_data = "2" /\ d.correct_on_left)
                               \/ (key_data = "1" /\ ~d.correct_on_left)
        chosen_state == IF key_data = NoKey THEN "None"
                        ELSE IF sj_correctness THEN d.correct_state
                        ELSE d.incorrect_state
        row == [run_number |-> run_number + 1,
                probe_stimulus_true_state |-> d.probe_state,
                correct_stimulus_true_state |-> d.correct_state,
                incorrect_stimulus_true_state |-> d.incorrect_state,
                key_pressed |-> IF key_data = NoKey THEN "None" ELSE key_data,
                chosen_true_state |-> chosen_state,
                is_correct |-> IF sj_correctness THEN 1 ELSE 0,
                reaction_time |-> IF key_data = NoKey THEN "None" ELSE "rt"]
    IN  IF before_keys # "none" THEN [raised |-> before_keys, rows |-> <<>>]
        ELSE IF after_keys # "none" THEN [raised |-> after_keys, rows |-> <<>>]
        ELSE [raised |-> "none", rows |-> <<row>>]

\* one step of the body of `for run in range(N_RUNS)` (applied_learning.py
\* 347-368): the next scrambled_sequences_screen call while fewer than 6 are
\* done (sequence 1 three times, then sequence 2), else the next quiz_screen
\* call; after the last quiz of the last run the task closes.  An exception
\* raised by the call ends run().
AlStep ==
    /\ task = "applied_learning" /\ task_pc = "loop"
    /\ run < N_RUNS
    /\ IF screens_shown < 6
       THEN LET raised == scrambled_sequences_screen(
                              gsr_ret.rule, IF screens_shown < 3 THEN 1 ELSE 2) IN
            /\ task_pc' = IF raised # "none" THEN raised ELSE "loop"
            /\ screens_shown' = IF raised # "none" THEN screens_shown
                                ELSE screens_shown + 1
            /\ UNCHANGED <<run, probe_ix, trials_begun, behavior_rows>>
       ELSE \E d \in ValidQuizDraws, key_data \in {"1", "2", NoKey} :
              LET out == quiz_screen(run, d, key_data)
                  last_probe == probe_ix + 1 = N_PROBES
              IN
              /\ trials_begun' = trials_begun + 1
              /\ behavior_rows' = behavior_rows \o out.rows
              /\ IF out.raised # "none"
                 THEN /\ task_pc' = out.raised
                      /\ UNCHANGED <<run, screens_shown, probe_ix>>
                 ELSE /\ probe_ix' = IF last_probe THEN 0 ELSE probe_ix + 1
                      /\ run' = IF last_probe THEN run + 1 ELSE run
                      /\ screens_shown' = IF last_probe THEN 0 ELSE screens_shown
                      /\ task_pc' = IF last_probe /\ run + 1 = N_RUNS
                                    THEN "closed" ELSE "loop"
    /\ UNCHANGED <<task, task_subject, is_connected, trial_num>>
    /\ UNCHANGED <<gsr_vars, gom_vars>>
    /\ UNCHANGED task_frame

\* text_name[1:].capitalize()
text_label(text_name) ==
    [o \in Elems(SESSION2_OBJECTS) |->
        CASE o = "2beach" -> "Beach"   [] o = "2carrot" -> "Carrot"
          [] o = "2chair" -> "Chair"   [] o = "2drill" -> "Drill"
          [] o = "2hand" -> "Hand"     [] o = "2teapot" -> "Teapot"
          [] o = "2tree" -> "Tree"     [] o = "2turkey" -> "Turkey"][text_name]

\* one iteration of the trial loop of FunctionalLocalizer.run (lines 151-209)
\* for a given trial and keys: what it raises and the rows written by then
fl_trial(number, obj_name, is_match, text_name, keys) ==
    LET before_keys == FirstRaised(<<MetaPort_write(Str(obj_name)),
                                     MetaPort_write(Str(text_label(text_name)))>>)
        press == IF keys = NoKey THEN "none"
                 ELSE MetaPort_write(Str(keys \o "_press"))
        correct == \/ (keys = "1" /\ is_match)
                   \/ (keys = "2" /\ ~is_match)
        row == [trial_number |-> number, image_name |-> obj_name,
                text_name |-> text_name, is_match |-> is_match,
                key_pressed |-> IF keys = NoKey THEN "" ELSE keys,
                is_correct |-> IF keys = NoKey THEN ""
                               ELSE IF correct THEN "True" ELSE "False",
                reaction_time |-> IF keys = NoKey THEN "" ELSE "rt"]
        after_row == FirstRaised(<<MetaPort_write(Str("feedback_message")),
                                   MetaPort_write(Str("fixation"))>>)
    IN  IF before_keys # "none" THEN [raised |-> before_keys, rows |-> <<>>]
        ELSE IF press # "none" THEN [raised |-> press, rows |-> <<>>]
        ELSE [raised |-> after_row, rows |-> <<row>>]

\* the next iteration of `for trial_num, obj_name in enumerate(trial_order,
\* start=1)`; after the last one the task closes.  An exception raised in the
\* iteration ends run().
FlTrial ==
    /\ task = "functional_localizer" /\ task_pc = "loop"
    /\ trial_num < N_TRIALS
    /\ \E i \in 1..Len(SESSION2_OBJECTS), is_match \in BOOLEAN,
          j \in 1..Len(SESSION2_OBJECTS), keys \in {"1", "2", NoKey} :
         LET obj_name == SESSION2_OBJECTS[i]
             text_name == SESSION2_OBJECTS[j]
             out == fl_trial(trial_num + 1, obj_name, is_match, text_name, keys)
         IN
         /\ is_match = (text_name = obj_name)
         /\ trial_num' = trial_num + 1
         /\ trials_begun' = trials_begun + 1
         /\ behavior_rows' = behavior_rows \o out.rows
         /\ task_pc' = IF out.raised # "none" THEN out.raised
                       ELSE IF trial_num + 1 = N_TRIALS THEN "closed"
                       ELSE "loop"
    /\ UNCHANGED <<task, task_subject, is_connected, run, screens_shown, probe_ix>>
    /\ UNCHANGED <<gsr_vars, gom_vars>>
    /\ UNCHANGED task_frame

----------------------------------------------------------------------------
(* one run of training2.py / structure_learning.py: __post_init__ and the
   reshuffles of the pictures *)

\* no task object has been constructed yet
NoSession ==
    [active |-> FALSE, subject_id |-> 0, phase |-> "", scrambling_rule |-> EmptyDict,
     object_mapping |-> EmptyDict, run |-> 0]

SesIdle == session = NoSession

\* object_mappings.json after an earlier run of a task for subject_id has
\* stored the mapping of a phase the file did not hold yet (utils.py 210-219)
EarlierRun(file, subject_id) ==
    LET all_mappings == read_json(file).value
        subject_str == SubjectStr(subject_id)
        entry == IF subject_str \in DOMAIN all_mappings
                 THEN all_mappings[subject_str] ELSE EmptyDict
    IN  UNION { { write_json(DictSet(all_mappings, subject_str,
                                     DictSet(entry, phase,
                                             DictZip(list_of_letters, list_of_images)))) :
                    list_of_images \in RandomSample(PhaseObjects(phase)) } :
                phase \in Phases \ DOMAIN entry }

\* object_mappings.json as earlier runs can have left it: absent, unreadable,
\* or written by one or two runs of an earlier subject
EarlierMappingFiles ==
    {FileMissing, FileMalformed}
    \cup UNION { LET one == EarlierRun(FileMissing, subject_id)
                 IN  one \cup UNION { EarlierRun(file, subject_id) : file \in one } :
                 subject_id \in SubjectIds }

SesStart ==
    /\ mappings_file \in EarlierMappingFiles
    /\ gom_ret = NoMapping
    /\ gom_calls = 0

\* __post_init__ of training2.py (85-87) and structure_learning.py (88-89),
\* and of applied_learning.py (94-95): the rule and the phase's mapping are loaded
SesPostInit ==
    /\ ~session.active
    /\ \E subject_id \in SubjectIds, phase \in Phases :
          /\ get_scrambling_rule(subject_id)
          /\ get_object_mapping(subject_id, phase, FALSE)
          /\ session' = [active |-> TRUE, subject_id |-> subject_id, phase |-> phase,
                         scrambling_rule |-> gsr_ret'.rule,
                         object_mapping |-> gom_ret'.mapping,
                         run |-> 0]
    /\ UNCHANGED ses_frame

\* the pictures are reshuffled: permute_and_show_seqs (training2.py 632), and
\* `if run > 0` in the run loop of structure_learning.py (354-356).  The same
\* statement of applied_learning.py (352) is never reached: run 1 ends with the
\* TypeError of MetaPort.write.
SesReshuffle ==
    /\ session.active
    /\ session.phase # "applied_learning"
    /\ session.run < MaxReshuffles
    /\ session.phase = "structure_learning" => session.run + 1 < N_RUNS
    /\ get_object_mapping(session.subject_id, session.phase, TRUE)
    /\ session' = [session EXCEPT !.object_mapping = gom_ret'.mapping,
                                  !.run = @ + 1]
    /\ UNCHANGED gsr_vars
    /\ UNCHANGED ses_frame

----------------------------------------------------------------------------
(* Specifications *)

\* create_random_mapping, one loop iteration per step
InitMapping == CmStart /\ GsrIdle /\ GomIdle /\ TrIdle /\ TaskIdle /\ SesIdle
NextMapping == CreateStep \/ CreateReturn
SpecMapping == InitMapping /\ [][NextMapping]_vars

\* calls of get_scrambling_rule on one scrambling_rules.json
InitRules == CmIdle /\ GsrInit /\ GomIdle /\ TrIdle /\ TaskIdle /\ SesIdle
NextRules == GetScramblingRule
SpecRules == InitRules /\ [][NextRules]_vars

\* calls of get_object_mapping on one object_mappings.json
InitObjects == CmIdle /\ GsrIdle /\ GomInit /\ TrIdle /\ TaskIdle /\ SesIdle
NextObjects == GetObjectMapping
SpecObjects == InitObjects /\ [][NextObjects]_vars

\* one run of a task on the two JSON files as earlier runs left them
InitSessions == CmIdle /\ GsrInit /\ SesStart /\ TrIdle /\ TaskIdle /\ SesIdle
NextSessions == SesPostInit \/ SesReshuffle
SpecSessions == InitSessions /\ [][NextSessions]_vars

\* the adaptive loop of training.py
InitTraining == CmIdle /\ GsrIdle /\ GomIdle /\ TrStart("training") /\ TaskIdle /\ SesIdle
NextTraining == TrStartRound \/ TrExitLoop \/ TrSeqQuiz \/ TrChoosePartner
                \/ TrOrderQuiz \/ TrUpdate
SpecTraining == InitTraining /\ [][NextTraining]_vars

\* the training loop and the open quizzes of training2.py
InitTraining2 == CmIdle /\ GsrIdle /\ GomIdle /\ TrStart("training2") /\ TaskIdle /\ SesIdle
NextTraining2 == T2StartRound \/ T2ExitLoop \/ T2InnerQuiz \/ T2InnerExit
                 \/ T2SeqAttempt \/ T2OrderAttempt \/ T2Return
                 \/ T2StrongPair \/ T2OpenQuiz
SpecTraining2 == InitTraining2 /\ [][NextTraining2]_vars

\* either script, chosen when the run starts
InitAdaptive == CmIdle /\ GsrIdle /\ GomIdle /\ TaskIdle /\ SesIdle
                /\ (TrStart("training") \/ TrStart("training2"))
NextAdaptive == TrStartRound \/ TrExitLoop \/ TrSeqQuiz \/ TrChoosePartner
                \/ TrOrderQuiz \/ TrUpdate
                \/ T2StartRound \/ T2ExitLoop \/ T2InnerQuiz \/ T2InnerExit
                \/ T2SeqAttempt \/ T2OrderAttempt \/ T2Return
                \/ T2StrongPair \/ T2OpenQuiz
SpecAdaptive == InitAdaptive /\ [][NextAdaptive]_vars

\* the timed-trial tasks: applied_learning.py or functional_localizer.py,
\* from the construction of the task object on
InitTasks == CmIdle /\ GsrInit /\ GomInit /\ TrIdle /\ TaskStart /\ SesIdle
NextTasks == AlPostInit \/ FlPostInit \/ TaskSpace \/ TaskEscape
             \/ AlStep \/ FlTrial
SpecTasks == InitTasks /\ [][NextTasks]_vars

----------------------------------------------------------------------------
(* Properties *)

\* m maps the set keys one-to-one onto the set values
IsBijection(m, keys, values) ==
    /\ DOMAIN m = keys
    /\ {m[k] : k \in DOMAIN m} = values
    /\ \A a, b \in DOMAIN m : a # b => m[a] # m[b]

AllStates == {"W", "X", "Y", "Z", "Wp", "Xp", "Yp", "Zp"}

\* the true sequence (1 or 2) of the state a returned mapping puts at slot i
SeqAtSlot(i) == IF reverse_state_lookup(mapping, i) \in {"W", "X", "Y", "Z"} THEN 1 ELSE 2

\* C1: every mapping returned by create_random_mapping is a bijection from the
\* 8 states W, X, Y, Z, Wp, Xp, Yp, Zp onto the slot indices 0..7.
C1_MappingIsBijection ==
    cm_pc = "returned" => IsBijection(mapping, AllStates, 0..7)

C1_Witness ==
    /\ cm_pc = "returned"
    /\ mapping["Zp"] = 0
    /\ mapping["W"] = 7

\* C2 as stated: in every returned rule the states at slots i and i+1 belong to
\* different true sequences for every i in 0..6.
C2_AlternatesEverywhere ==
    cm_pc = "returned" => \A i \in 0..6 : SeqAtSlot(i) # SeqAtSlot(i + 1)

\* C2 amended: in every returned rule the states at slots i and i+1 belong to
\* different true sequences for every i in {0, 1, 2, 4, 5, 6}; slot 4 is drawn
\* with no constraint from slot 3.
C2_AlternatesExceptAcrossSlots3And4 ==
    cm_pc = "returned" => \A i \in {0, 1, 2, 4, 5, 6} : SeqAtSlot(i) # SeqAtSlot(i + 1)

C2_Witness ==
    /\ cm_pc = "returned"
    /\ SeqAtSlot(3) = SeqAtSlot(4)

\* C3: in training.py every learning level is an integer in 0..3 at every
\* point of the adaptive loop.
C3_TrainingLevelsIn0To3 ==
    script = "training" => \A state \in AllStates : learning_levels[state] \in 0..3

C3_Witness ==
    /\ script = "training" /\ pc = "while"
    /\ quiz_result_2 = "incorrect"
    /\ \E state \in AllStates : learning_levels[state] = 3
    /\ \E state \in AllStates : learning_levels[state] = 1

\* C4 as stated: in training2.py every learning level is an integer in 0..3 at
\* every point of the run.
C4_Training2LevelsIn0To3 ==
    script = "training2" => \A state \in AllStates : learning_levels[state] \in 0..3

\* C4 amended: in training2.py every learning level is a non-negative integer
\* at every point of the run; it is not capped at 3.
C4_Training2LevelsNonNegative ==
    script = "training2" => \A state \in AllStates : learning_levels[state] \in Nat

C4_Witness ==
    /\ script = "training2" /\ pc = "order_quiz"
    /\ quiz_result = "incorrect"
    /\ learning_levels[quiz_state_1] = 0
    /\ \E state \in AllStates : learning_levels[state] > 3

AllAtCeiling == \A state \in AllStates : learning_levels[state] >= 3

\* C5: the loop test of the adaptive loop (training.py) and of the outer
\* training loop (training2.py) leaves the loop only when no state has a level
\* below 3, and starts a new round only when some state has a level below 3.
C5_LoopEndsAtCeiling ==
    [][ (pc = "while" /\ pc' # "while") =>
            IF AllAtCeiling THEN pc' \in {"done", "open"}
                            ELSE pc' \in {"seq_quiz", "inner"} ]_vars

C5_Witness ==
    /\ script = "training2" /\ pc = "open" /\ open_ix = 0
    /\ AllAtCeiling

\* the state has the lowest level of all 8 states, and that level is below 3
IsUnderTrained(levels, chosen) ==
    /\ chosen \in AllStates
    /\ levels[chosen] < 3
    /\ \A state \in AllStates : levels[chosen] <= levels[state]

\* C6: the state chosen to train at the start of a round (true_state in
\* training.py, train_state_1 in training2.py) has the minimum level of all 8
\* states at that moment, that level is below 3, and the choice never fails
\* on an empty list.
C6_SelectsUnderTrainedState ==
    [][ pc = "while" =>
            /\ pc' # "IndexError"
            /\ pc' = "seq_quiz" => IsUnderTrained(learning_levels, true_state')
            /\ pc' = "inner" => IsUnderTrained(learning_levels, train_state_1') ]_vars

C6_Witness ==
    /\ script = "training" /\ pc = "seq_quiz"
    /\ learning_levels[true_state] = 2
    /\ \E state \in AllStates : learning_levels[state] = 3

\* C7 as stated: every round of training.py and every do_quizzes call of
\* training2.py asks a sequence-membership quiz and then a pairwise-order quiz.
C7_AlwaysTwoQuizzes ==
    /\ (script = "training" /\ pc = "update") => asked = <<"sequence", "order">>
    /\ (script = "training2" /\ pc = "quizzed") => asked = <<"sequence", "order">>

\* some other state of the same true sequence has a level above 0
HasSeenPartner(levels, chosen) ==
    \E state \in AllStates :
        /\ state # chosen
        /\ (state \in {"W", "X", "Y", "Z"}) = (chosen \in {"W", "X", "Y", "Z"})
        /\ levels[state] > 0

\* C7 amended: every round of training.py asks the sequence-membership quiz
\* and then the pairwise-order quiz only when another state of the same true
\* sequence has a level above 0, else the sequence-membership quiz alone;
\* every do_quizzes call of training2.py that returns has asked both, in that
\* order.
C7_SequenceThenOrderIfPartner ==
    /\ (script = "training" /\ pc = "update") =>
          asked = IF HasSeenPartner(learning_levels, true_state)
                  THEN <<"sequence", "order">> ELSE <<"sequence">>
    /\ (script = "training2" /\ pc = "quizzed") => asked = <<"sequence", "order">>

C7_Witness ==
    /\ script = "training" /\ pc = "update"
    /\ true_state_2 = "None"
    /\ asked = <<"sequence">>

\* the rule scrambling_rules.json stores for a subject, as a set
RuleOnFile(file, subject_id) ==
    IF file.kind = "json" /\ ("subject_" \o ToString(subject_id)) \in DOMAIN file.data
    THEN {file.data["subject_" \o ToString(subject_id)]} ELSE {}

\* C8: once get_scrambling_rule has returned a rule for a subject, every later
\* call for that subject returns the same rule, and a call for a subject never
\* changes the rule stored for another subject.
C8_GenerateOnceThenReuse ==
    [][ \A s \in 1..NumSubjects :
          (gsr_ret'.called /\ gsr_ret'.subject = s) =>
             /\ gsr_ret'.raised = "none"
             /\ RuleOnFile(rules_file, s) # {} => RuleOnFile(rules_file, s) = {gsr_ret'.rule}
             /\ SubjectStr(s) \in DOMAIN gsr_first => gsr_ret'.rule = gsr_first[SubjectStr(s)]
             /\ \A t \in (1..NumSubjects) \ {s} :
                   RuleOnFile(rules_file', t) = RuleOnFile(rules_file, t) ]_vars

C8_Witness ==
    /\ gsr_ret.called /\ ~gsr_ret.created
    /\ gsr_ret.found = "json"
    /\ \A s \in 1..NumSubjects : RuleOnFile(rules_file, s) # {}

PhaseImageNames(phase) ==
    IF phase = "training"
    THEN {"3papaya", "3broccoli", "3eggplant", "3strawberry",
          "3banana", "3fig", "3asparagus", "3pineapple"}
    ELSE IF phase = "structure_learning"
    THEN {"1backpack", "1computer", "1fish", "1hair",
          "1table", "1key", "1lettuce", "1boat"}
    ELSE {"2beach", "2carrot", "2chair", "2drill",
          "2hand", "2teapot", "2tree", "2turkey"}

\* C10: every mapping get_object_mapping returns for one of the three phases,
\* stored or newly generated, is a bijection from the 8 true states onto the 8
\* image names of that phase's object set.
C10_ObjectMappingIsBijection ==
    (gom_ret.called /\ gom_ret.raised = "none") =>
        IsBijection(gom_ret.mapping, AllStates, PhaseImageNames(gom_ret.phase))

C10_Witness ==
    /\ gom_ret.called /\ gom_ret.raised = "none"
    /\ ~gom_ret.created
    /\ gom_ret.phase = "applied_learning"
    /\ gom_ret.mapping["W"] # "2beach"

\* the row records a trial with no response: no key, no reaction time, not correct
IsNoResponseRow(row) ==
    /\ row.key_pressed \in {"None", ""}
    /\ row.reaction_time \in {"None", ""}
    /\ IF task = "applied_learning" THEN row.is_correct = 0 ELSE row.is_correct = ""

\* C11 as stated: in applied_learning.py and functional_localizer.py every
\* trial that has begun, answered or not, has written exactly one row, a row
\* without a key is a no-response row, and no trial ends the task with an
\* error, so the task goes on to the next trial.
C11_EveryTrialWritesOneRow ==
    /\ task_pc \notin {"TypeError", "KeyError"}
    /\ Len(behavior_rows) = trials_begun
    /\ \A i \in 1..Len(behavior_rows) :
          behavior_rows[i].key_pressed \in {"None", ""} => IsNoResponseRow(behavior_rows[i])

\* the step is a quiz attempt of training2.py on which escape is pressed
EscapePressed ==
    /\ script = "training2"
    /\ \/ pc = "seq_quiz" /\ quiz_result' = "escape"
       \/ pc = "order_quiz" /\ quiz_result_2' = "escape"

\* C12: in training2.py, when escape is pressed during a quiz question the
\* session ends: that question writes no row to the behaviour file, no
\* learning level changes, the behaviour file is closed, and no further quiz
\* question or retry follows (no step is taken once the session has ended).
C12_EscapeEndsSession ==
    [][ /\ pc # "exited"
        /\ EscapePressed =>
              /\ pc' = "exited"
              /\ rows_written' = rows_written
              /\ learning_levels' = learning_levels
              /\ ~behavior_file_open' ]_vars

C12_Witness ==
    /\ script = "training2" /\ pc = "exited"
    /\ quiz_result_2 = "escape"
    /\ retry_count > 0
    /\ rows_written > 1
    /\ ~behavior_file_open
    /\ \E state \in AllStates : learning_levels[state] > 0

\* C13: in one round of the training.py loop the levels change only in the
\* update at its end: if the sequence quiz and the order quiz (correct when
\* not asked) are both correct the selected state rises by exactly 1;
\* otherwise the selected state and the order-quiz partner, if any, each drop
\* by exactly 1 when above 1 and stay as they are at 0 or 1.  All other levels
\* are unchanged.
C13_RoundChangesLevels ==
    [][ script = "training" =>
          IF pc = "update"
          THEN \A state \in AllStates :
                 learning_levels'[state] =
                    IF quiz_result = "correct" /\ quiz_result_2 = "correct"
                    THEN (IF state = true_state THEN learning_levels[state] + 1
                          ELSE learning_levels[state])
                    ELSE (IF state \in {true_state, true_state_2}
                             /\ learning_levels[state] > 1
                          THEN learning_levels[state] - 1
                          ELSE learning_levels[state])
          ELSE learning_levels' = learning_levels ]_vars

C13_Witness ==
    /\ script = "training" /\ pc = "while"
    /\ quiz_result = "correct" /\ quiz_result_2 = "incorrect"
    /\ learning_levels[true_state] = 1
    /\ learning_levels[true_state_2] = 2
    /\ \E state \in AllStates : learning_levels[state] = 3

\* C14: within each scrambled sequence of a returned rule (slots 0..3 and
\* slots 4..7) neighbouring slots hold states of different true sequences.
C14_AlternatesWithinScrambledSequences ==
    cm_pc = "returned" =>
        \A first \in {0, 4} : \A k \in 0..2 :
            SeqAtSlot(first + k) # SeqAtSlot(first + k + 1)

C14_Witness ==
    /\ cm_pc = "returned"
    /\ SeqAtSlot(0) = 2 /\ SeqAtSlot(1) = 1 /\ SeqAtSlot(2) = 2 /\ SeqAtSlot(3) = 1
    /\ SeqAtSlot(4) = 2 /\ SeqAtSlot(5) = 1 /\ SeqAtSlot(6) = 2 /\ SeqAtSlot(7) = 1

\* C15: create_random_mapping always completes: at each of its 8 steps the
\* list the code is chosen from is non-empty, so no random.choice fails, and
\* the loop ends after slot 7.
C15_MappingAlwaysCompletes ==
    /\ cm_pc # "IndexError"
    /\ (cm_pc = "loop" /\ num < 8) =>
          ValidCodes(num, available_codes, number_subsets) # <<>>
    /\ cm_pc = "returned" => (num = 8 /\ available_codes = <<>>)

C15_Witness ==
    /\ cm_pc = "loop" /\ num = 7
    /\ Len(ValidCodes(num, available_codes, number_subsets)) = 1
    /\ Len(available_codes) = 1

\* C16: in training.py a learning level never goes back below 1: a state whose
\* level is 1 or more still has a level of 1 or more after every step.
C16_LevelStaysAtLeast1 ==
    [][ script = "training" =>
          \A state \in AllStates :
             learning_levels[state] >= 1 => learning_levels'[state] >= 1 ]_vars

C16_Witness ==
    /\ script = "training" /\ pc = "while"
    /\ quiz_result = "incorrect" /\ quiz_result_2 = "incorrect"
    /\ learning_levels[true_state] = 1
    /\ learning_levels[true_state_2] = 1

\* two distinct states of the same true sequence
DistinctInSameSequence(state_1, state_2) ==
    /\ state_1 \in AllStates /\ state_2 \in AllStates
    /\ state_1 # state_2
    /\ (state_1 \in {"W", "X", "Y", "Z"}) = (state_2 \in {"W", "X", "Y", "Z"})

\* C17: every order quiz asked by training.py and training2.py compares two
\* distinct states of the same true sequence, so its assertion never fails;
\* in training.py the partner has a learning level of at least 1.
C17_OrderQuizWithinOneSequence ==
    /\ pc # "AssertionError"
    /\ (script = "training" /\ pc = "order_quiz") =>
          /\ DistinctInSameSequence(true_state, true_state_2)
          /\ learning_levels[true_state_2] >= 1
    /\ (script = "training2" /\ pc = "order_quiz") =>
          DistinctInSameSequence(quiz_state_1, quiz_state_2)

C17_Witness ==
    /\ script = "training2" /\ pc = "order_quiz"
    /\ call_site = "strong"
    /\ quiz_state_1 = "X" /\ quiz_state_2 = "W"
    /\ retry_count = 1

\* C18: in a round of the training.py loop the order quiz is asked if and only
\* if some state other than the selected one, in the same true sequence, has a
\* learning level above 0; when it is not asked, the round counts the order
\* quiz as correct.
C18_OrderQuizIffPartnerExists ==
    script = "training" =>
        /\ pc = "order_quiz" => HasSeenPartner(learning_levels, true_state)
        /\ pc = "update" =>
              /\ (true_state_2 # "None") <=> HasSeenPartner(learning_levels, true_state)
              /\ (Len(asked) = 2) <=> (true_state_2 # "None")
              /\ true_state_2 = "None" => quiz_result_2 = "correct"

C18_Witness ==
    /\ script = "training" /\ pc = "update"
    /\ true_state_2 = "None"
    /\ quiz_result = "incorrect" /\ quiz_result_2 = "correct"
    /\ \E state \in AllStates : learning_levels[state] = 1

\* the sum of the 8 learning levels
TotalLevel ==
    learning_levels["W"] + learning_levels["X"] + learning_levels["Y"]
    + learning_levels["Z"] + learning_levels["Wp"] + learning_levels["Xp"]
    + learning_levels["Yp"] + learning_levels["Zp"]

\* C19: if every quiz is answered correctly the adaptive loop of training.py
\* ends after exactly 24 rounds with every state at level 3: each such round
\* raises the total level by one, the loop is left at 24 rounds and not
\* before.  A round with an incorrect answer raises no level, so a participant
\* who keeps answering incorrectly never brings the lowest level to 3 and the
\* loop test never fails.
C19_TwentyFourPerfectRounds ==
    /\ [](script = "training" /\ perfect_rounds >= 0 =>
            /\ perfect_rounds <= 24
            /\ pc \in {"while", "done"} => TotalLevel = perfect_rounds
            /\ pc = "done" =>
                  /\ perfect_rounds = 24
                  /\ \A state \in AllStates : learning_levels[state] = 3
            /\ (pc = "while" /\ perfect_rounds = 24) => current_lowest_level = 3)
    /\ [][ (script = "training" /\ pc = "update"
            /\ (quiz_result = "incorrect" \/ quiz_result_2 = "incorrect")) =>
              /\ pc' = "while"
              /\ current_lowest_level' < 3
              /\ \A state \in AllStates :
                    learning_levels'[state] <= learning_levels[state] ]_vars

C19_Witness ==
    /\ script = "training" /\ pc = "done"
    /\ perfect_rounds = 24

\* C20: one do_quizzes(quiz_state_1, quiz_state_2) call of training2.py changes
\* only the levels of those two states: when the sequence quiz returns,
\* quiz_state_1 rises by 1 if the result is correct and otherwise drops by 1
\* unless it is 0; when the order quiz returns, both states rise by 1 if the
\* result is correct and otherwise both are set to 0.  No other step changes
\* a level and no level becomes negative.
C20_DoQuizzesLevelEffects ==
    [][ script = "training2" =>
          /\ \A state \in AllStates : learning_levels'[state] >= 0
          /\ IF pc = "seq_quiz" /\ pc' = "order_quiz"
             THEN \A state \in AllStates :
                    learning_levels'[state] =
                       IF state # quiz_state_1 THEN learning_levels[state]
                       ELSE IF quiz_result' = "correct" THEN learning_levels[state] + 1
                       ELSE IF learning_levels[state] = 0 THEN 0
                       ELSE learning_levels[state] - 1
             ELSE IF pc = "order_quiz" /\ pc' = "quizzed"
             THEN \A state \in AllStates :
                    learning_levels'[state] =
                       IF state \notin {quiz_state_1, quiz_state_2} THEN learning_levels[state]
                       ELSE IF quiz_result_2' = "correct" THEN learning_levels[state] + 1
                       ELSE 0
             ELSE learning_levels' = learning_levels ]_vars

C20_Witness ==
    /\ script = "training2" /\ pc = "quizzed"
    /\ quiz_result = "correct" /\ quiz_result_2 = "incorrect"
    /\ learning_levels[quiz_state_1] = 0 /\ learning_levels[quiz_state_2] = 0
    /\ \E state \in AllStates : learning_levels[state] >= 3

\* the step is an attempt of a retry wrapper of training2.py (the question is asked)
IsAttempt ==
    /\ script = "training2"
    /\ pc \in {"seq_quiz", "order_quiz"}
    /\ pc' # "AssertionError"

\* the value the retry wrapper running at pc has returned to do_quizzes when
\* the step leaves it
ReturnedValue == IF pc = "seq_quiz" THEN quiz_result' ELSE quiz_result_2'

\* C21: the retry wrappers seq_quiz_screen and order_quiz_screen of
\* training2.py ask the same question at most 5 times per call: every attempt
\* is one of the first 5 of its call; an attempt answered correctly makes the
\* wrapper return "correct" at once; the wrapper returns "incorrect" only on
\* the 5th attempt of the call, answered incorrectly; and the question is asked
\* again only after an incorrect attempt that was followed by the rule screen
\* and then the scrambled sequences.
C21_AtMostFiveAttempts ==
    [][ IsAttempt =>
          /\ retry_count + 1 <= 5
          /\ last_result' = "correct" =>
                pc' \notin {pc, "exited"} /\ ReturnedValue = "correct"
          /\ (pc' \notin {pc, "exited"} /\ ReturnedValue = "incorrect") =>
                retry_count + 1 = 5 /\ last_result' = "incorrect"
          /\ (pc' \notin {pc, "exited"}) => ReturnedValue = last_result'
          /\ pc' = pc =>
                /\ last_result' = "incorrect"
                /\ retry_count' = retry_count + 1
                /\ shown' = <<"rule_screen", "scrambled_sequences_screen">>
          /\ (last_result' = "incorrect" /\ pc' # "exited") =>
                shown' = <<"rule_screen", "scrambled_sequences_screen">> ]_vars

\* the order-quiz wrapper has returned "incorrect" after its 5th attempt, the
\* screens having been shown after it
C21_Witness ==
    /\ script = "training2" /\ pc = "quizzed"
    /\ quiz_result_2 = "incorrect"
    /\ last_result = "incorrect"
    /\ rows_written >= 6
    /\ shown = <<"rule_screen", "scrambled_sequences_screen">>

\* C22: in the training2.py loop the inner loop for a pair of train states is
\* left for the outer loop test only when both train states have level 3 or
\* more, and the extra pair chosen for a quiz in an inner iteration is two
\* distinct states of the same true sequence, both with a level above 1 when
\* chosen and neither of them one of the two train states; this pair stays
\* the same for the whole extra call of do_quizzes.
C22_InnerLoopAndStrongPair ==
    /\ [](script = "training2" /\ call_site = "strong" =>
            /\ DistinctInSameSequence(quiz_state_1, quiz_state_2)
            /\ {quiz_state_1, quiz_state_2} \cap {train_state_1, train_state_2} = {})
    /\ [][ script = "training2" =>
             /\ (pc # "while" /\ pc' = "while") =>
                   /\ learning_levels[train_state_1] >= 3
                   /\ learning_levels[train_state_2] >= 3
                   /\ learning_levels' = learning_levels
             /\ (call_site # "strong" /\ call_site' = "strong") =>
                   /\ pc = "strong"
                   /\ learning_levels[quiz_state_1'] > 1
                   /\ learning_levels[quiz_state_2'] > 1
                   /\ learning_levels' = learning_levels
                   /\ <<train_state_1, train_state_2>>' = <<train_state_1, train_state_2>>
             /\ (call_site = "strong" /\ call_site' = "strong") =>
                   <<quiz_state_1, quiz_state_2>>' = <<quiz_state_1, quiz_state_2>> ]_vars

\* an extra pair has just been chosen while one train state is still below
\* level 3, after an earlier inner loop has ended
C22_Witness ==
    /\ script = "training2" /\ pc = "seq_quiz"
    /\ call_site = "strong"
    /\ asked = <<>>
    /\ learning_levels[quiz_state_1] > 1 /\ learning_levels[quiz_state_2] > 1
    /\ learning_levels[train_state_1] < 3 \/ learning_levels[train_state_2] < 3
    /\ \E state \in AllStates : learning_levels[state] >= 3

\* the step is a reshuffle of the pictures by the running task
IsReshuffle == session.active /\ session'.active /\ session'.run = session.run + 1

\* C23: a reshuffle of the pictures (get_object_mapping with force_new=True)
\* stores a new mapping for the running subject and phase and changes nothing
\* else: the rules file, every other subject's mappings and the subject's
\* mappings of other phases are as before; and for the whole run the rule the
\* task holds is the rule stored for its subject.
C23_ReshuffleReplacesOneMapping ==
    /\ [](session.active =>
            /\ rules_file.kind = "json"
            /\ SubjectStr(session.subject_id) \in DOMAIN rules_file.data
            /\ session.scrambling_rule = rules_file.data[SubjectStr(session.subject_id)])
    /\ [][ IsReshuffle =>
             LET subject_str == SubjectStr(session.subject_id)
                 phase == session.phase
                 before == read_json(mappings_file).value
                 after == read_json(mappings_file').value
             IN
             /\ rules_file' = rules_file
             /\ session'.scrambling_rule = session.scrambling_rule
             /\ subject_str \in DOMAIN before /\ phase \in DOMAIN before[subject_str]
             /\ DOMAIN after = DOMAIN before
             /\ \A other \in DOMAIN before \ {subject_str} : after[other] = before[other]
             /\ DOMAIN after[subject_str] = DOMAIN before[subject_str]
             /\ \A other \in DOMAIN before[subject_str] \ {phase} :
                   after[subject_str][other] = before[subject_str][other]
             /\ gom_ret'.created
             /\ after[subject_str][phase] = gom_ret'.mapping
             /\ session'.object_mapping = gom_ret'.mapping ]_vars

\* the pictures of a phase have been reshuffled, to a different mapping, while
\* the subject has a mapping of another phase on file
C23_Witness ==
    /\ session.active /\ session.run = 1
    /\ gom_ret.force_new /\ gom_ret.created
    /\ mappings_file.kind = "json"
    /\ \E other \in DOMAIN mappings_file.data[SubjectStr(session.subject_id)] :
          other # session.phase
    /\ session.object_mapping["W"] # PhaseObjects(session.phase)[1]

====
